---- MODULE Spec2Model ----
(***************************************************************************)
(* Model of saleor's hardware module: the three mutations and the six     *)
(* query fields of saleor/graphql/hardware/schema.py, the GeminiClient     *)
(* adapter (saleor/hardware/gemini_client.py) and the rows they write and  *)
(* read (saleor/hardware/models.py).                                       *)
(*                                                                         *)
(* Text is a sequence of one-character strings, so that strip(), split()   *)
(* and str() are computed and not assumed.  The remote Gemini service is   *)
(* the environment: each remote call either fails (raises) or answers     *)
(* with some text.                                                         *)
(*                                                                         *)
(* The mutations share no row: Spec and SpecSeq run hardwareChatMessage    *)
(* (interleaved, and one call at a time), SpecCred runs it while the       *)
(* credential setting changes, SpecFind runs findSimilarProducts, and      *)
(* SpecRead runs the query fields and identifyHardwareImage over tables    *)
(* that earlier calls filled.                                              *)
(***************************************************************************)
EXTENDS Integers, Sequences, FiniteSets, TLC

(* ------------------------------ bounds -------------------------------- *)

\* hardwareChatMessage calls started in one behaviour
MaxCalls == 3

\* the request workers that run hardwareChatMessage: two, so that two calls
\* can be in flight at once
Reqs == {1, 2}

(* ------------------------------- text --------------------------------- *)

Range(s) == {s[i] : i \in 1..Len(s)}

IsSpace(c) == c = " "

RECURSIVE LStrip(_)
LStrip(s) == IF s # <<>> /\ IsSpace(Head(s)) THEN LStrip(Tail(s)) ELSE s

RECURSIVE RStrip(_)
RStrip(s) ==
    IF s # <<>> /\ IsSpace(s[Len(s)]) THEN RStrip(SubSeq(s, 1, Len(s) - 1)) ELSE s

\* str.strip()
Strip(s) == RStrip(LStrip(s))

(* ------------------------- hardwareChatMessage ------------------------- *)

\* Python's None for an input field that is absent or null; no client string
\* equals it.
NoneVal == "<None>"

\* the truth value Python gives a string or None in `if session_id:`
Truthy(s) == s # NoneVal /\ s # ""

\* query strings clients send
Queries == {<<"q">>, <<"p">>}

\* what the remote model answers, before strip()
RawResponses == {<<" ", "a", " ">>}

\* str(e) of the exception a failed remote call raises
ErrorTexts == {<<"t", "i", "m", "e", "o", "u", "t">>}

\* outcome of the remote call inside hardware_chat
RemoteOutcomes ==
    [ok : {TRUE}, text : RawResponses] \cup [ok : {FALSE}, text : ErrorTexts]

ErrorPrefix == <<"Error processing query: ">>

UserTurn(q) == [role |-> "user", parts |-> <<q>>]
ModelTurn(t) == [role |-> "model", parts |-> <<t>>]

\* hardware_chat with the prior turns left out of the returned history
hardware_chat_DropsPrior(q, hist, remote) ==
    IF remote.ok
    THEN [response |-> Strip(remote.text),
          history  |-> <<UserTurn(q), ModelTurn(Strip(remote.text))>>]
    ELSE [response |-> ErrorPrefix \o remote.text,
          history  |-> IF hist # <<>> THEN hist ELSE <<>>]

\* hardware_chat whose failure branch returns an empty history
hardware_chat_FailureClears(q, hist, remote) ==
    IF remote.ok
    THEN [response |-> Strip(remote.text),
          history  |-> IF hist # <<>>
                       THEN hist \o <<UserTurn(q), ModelTurn(Strip(remote.text))>>
                       ELSE <<UserTurn(q), ModelTurn(Strip(remote.text))>>]
    ELSE [response |-> ErrorPrefix \o remote.text,
          history  |-> <<>>]

\* GeminiClient.hardware_chat: the dict it returns, given how the remote call
\* ended
hardware_chat(q, hist, remote) ==
    IF remote.ok
    THEN [response |-> Strip(remote.text),
          history  |-> IF hist # <<>>
                       THEN hist \o <<UserTurn(q), ModelTurn(Strip(remote.text))>>
                       ELSE <<UserTurn(q), ModelTurn(Strip(remote.text))>>]
    ELSE [response |-> ErrorPrefix \o remote.text,
          history  |-> IF hist # <<>> THEN hist ELSE <<>>]

(* ------------------------- findSimilarProducts ------------------------- *)

\* longest remote answer, in characters
MaxTextLen == 4
\* default_value of FindSimilarProductsInput.max_results
DefaultMaxResults == 3

\* the catalog: Product rows with their category
Catalog ==
    <<[id |-> 2, category_id |-> "c1"],
      [id |-> 12, category_id |-> "c1"],
      [id |-> 1, category_id |-> "c2"]>>

\* the orders in which a query may return the catalog's rows
CatalogOrders ==
    {o \in [1..Len(Catalog) -> Range(Catalog)] : Range(o) = Range(Catalog)}

\* an optional integer: <<>> is None, <<n>> is n
MaxResultsValues == {<<>>} \cup {<<n>> : n \in -1..DefaultMaxResults}

\* category ids a client may send: none, empty, one that exists, one that does not
CategoryIds == {NoneVal, "", "c1", "c9"}

FindInputs == [category_id : CategoryIds, max_results : MaxResultsValues]

NoInput == [category_id |-> NoneVal, max_results |-> <<>>]

Digits == <<"0", "1", "2", "3", "4", "5", "6", "7", "8", "9">>

\* str(n) for an integer n >= 0
RECURSIVE Str(_)
Str(n) ==
    IF n < 10 THEN <<Digits[n + 1]>> ELSE Str(n \div 10) \o <<Digits[(n % 10) + 1]>>

DigitValue(c) == CHOOSE d \in 0..9 : Digits[d + 1] = c

\* int(s) for a string of digits, as the id__in lookup converts an id
RECURSIVE ParseInt(_)
ParseInt(s) ==
    IF Len(s) = 1
    THEN DigitValue(s[1])
    ELSE 10 * ParseInt(SubSeq(s, 1, Len(s) - 1)) + DigitValue(s[Len(s)])

\* the characters a remote answer is made of
TextAlphabet == {"1", "2", ",", " "}

RECURSIVE TextsOfLen(_)
TextsOfLen(n) ==
    IF n = 0
    THEN {<<>>}
    ELSE {Append(t, c) : t \in TextsOfLen(n - 1), c \in TextAlphabet}

\* the answers the remote may give to the find-similar prompt
ResponseTexts == UNION {TextsOfLen(n) : n \in 0..MaxTextLen}

\* outcome of the remote call inside find_similar_products
FindOutcomes == [ok : {TRUE}, text : ResponseTexts] \cup {[ok |-> FALSE, text |-> <<>>]}

\* what identify_hardware_from_image returns: a name or an error description
IdentifyResults == {<<"G", "P", "U">>, <<"Error processing image: ">>}

\* str.split(",")
RECURSIVE Split(_)
Split(s) ==
    IF "," \notin Range(s)
    THEN <<s>>
    ELSE LET i == CHOOSE k \in 1..Len(s) :
                      s[k] = "," /\ \A j \in 1..(k - 1) : s[j] # ","
         IN <<SubSeq(s, 1, i - 1)>> \o Split(SubSeq(s, i + 1, Len(s)))

\* gemini_client.py line 120: the ids parsed from the remote's answer
ParsedIds(text) == LET parts == Split(Strip(text))
                   IN [i \in 1..Len(parts) |-> Strip(parts[i])]

\* GeminiClient.find_similar_products: the list it returns, given how the
\* remote call ended
find_similar_products(database, remote) ==
    IF remote.ok
    THEN LET product_ids == ParsedIds(remote.text)
         IN SelectSeq(database, LAMBDA p : p.id \in Range(product_ids))
    ELSE <<>>

Min(a, b) == IF a <= b THEN a ELSE b
Max(a, b) == IF a >= b THEN a ELSE b

\* schema.py line 272: xs[:max_results], for an integer or None
Slice(xs, max_results) ==
    IF max_results = <<>>
    THEN xs
    ELSE LET n == max_results[1]
             stop == IF n < 0 THEN Max(Len(xs) + n, 0) ELSE Min(n, Len(xs))
         IN SubSeq(xs, 1, stop)

\* a query that forgets the category filter
ProductsQuery_Unfiltered(rows, category_id) == rows

\* schema.py lines 244-247: Product.objects.all(), filtered by category if one
\* is given
ProductsQuery(rows, category_id) ==
    IF Truthy(category_id)
    THEN SelectSeq(rows, LAMBDA p : p.category_id = category_id)
    ELSE rows

\* schema.py lines 250-259: the dicts handed to the adapter
ProductDatabase(rows) ==
    [i \in 1..Len(rows) |-> [id |-> Str(rows[i].id), category |-> rows[i].category_id]]

\* schema.py line 275
ProductIds(data) == [i \in 1..Len(data) |-> data[i].id]

\* schema.py line 285: Product.objects.filter(id__in=product_ids)
ProductsWithIds(rows, product_ids) ==
    SelectSeq(rows, LAMBDA p : p.id \in {ParseInt(s) : s \in Range(product_ids)})

VARIABLES
    apiKey,        \* settings.GEMINI_API_KEY is configured
    chats,         \* HardwareChat rows, by primary key
    queries,       \* HardwareQuery rows, by primary key
    nextUuid,      \* number of uuid4() draws so far, plus one
    pc,            \* where each worker is in perform_mutation
    session_id,    \* perform_mutation's local session_id
    query,         \* perform_mutation's local query
    chat_session,  \* primary key of the local chat_session object
    history,       \* perform_mutation's local history
    result,        \* perform_mutation's local result
    created,       \* history variable: this call created its session
    remoteOk,      \* history variable: this call's remote call succeeded
    readVer,       \* history variable: writes[chat] when the call read it
    saveVer,       \* history variable: writes[chat] after the call saved
    queryRow,      \* history variable: primary key of the call's HardwareQuery
    writes,        \* history variable: save() calls per HardwareChat row
    succeeded,     \* history variable: per HardwareQuery row, remoteOk of its call
    nCalls,        \* history variable: calls started
    products,      \* the catalog's Product rows, in the order a query returns them
    searches,      \* ProductSimilaritySearch rows, by primary key
    fpc,           \* where the findSimilarProducts worker is in perform_mutation
    finput,        \* FindSimilarProducts.perform_mutation's input
    product_database,       \* perform_mutation's local product_database
    response_text,          \* history variable: the remote's answer, <<>> if it failed
    similar_products_data,  \* perform_mutation's local similar_products_data
    hardware_id_result,     \* perform_mutation's local hardware_id_result
    similar_products,       \* the similar_products the mutation returns
    identifications,  \* HardwareIdentification rows, by primary key
    lookup         \* history variable: the latest read and what it returned

chatVars == <<chats, queries, nextUuid, pc, session_id, query, chat_session,
              history, result, created, remoteOk, readVer, saveVer, queryRow,
              writes, succeeded, nCalls>>

findVars == <<products, searches, fpc, finput, product_database, response_text,
              similar_products_data, hardware_id_result, similar_products>>

readVars == <<identifications, lookup>>

vars == <<apiKey, chatVars, findVars, readVars>>

\* a client that is built without the credential
GeminiClientRaises_Never == FALSE

\* GeminiClient.__init__: ValueError when settings has no GEMINI_API_KEY
GeminiClientRaises == ~apiKey

NoResult == [response |-> <<>>, history |-> <<>>]

\* a generator that returns the same id at every draw
Uuid4_Constant == "1"

\* str(uuid.uuid4()): a value no earlier draw returned and no client holds
Uuid4 == ToString(nextUuid)

\* HardwareChat.objects.get(session_id=sid): the primary keys that match
ChatsWithSessionId(sid) == {pk \in 1..Len(chats) : chats[pk].session_id = sid}

\* whether HardwareChat.objects.get(session_id=sid) finds a row
Resolves(sid) == Truthy(sid) /\ ChatsWithSessionId(sid) # {}

\* session ids a client may send: none, empty, one no session has, and the
\* ids of the sessions that exist
ClientSessionIds == {NoneVal, "", "bogus"} \cup {chats[pk].session_id : pk \in 1..Len(chats)}

\* unique=True on HardwareChat.session_id: an INSERT of a taken id fails
UniqueViolation(sid) == ChatsWithSessionId(sid) # {}

\* a creating branch that keeps the id the client supplied
NewSessionId_ReusesSupplied(sid) == IF Truthy(sid) THEN sid ELSE Uuid4

\* the session_id given to HardwareChat.objects.create in both creating branches
NewSessionId(sid) == Uuid4

\* HardwareChat.objects.create(session_id=..., history=[])
ChatRow(sid) == [session_id |-> sid, history |-> <<>>]

ChatInit ==
    /\ chats = <<>>
    /\ queries = <<>>
    /\ nextUuid = 1
    /\ pc = [r \in Reqs |-> "idle"]
    /\ session_id = [r \in Reqs |-> NoneVal]
    /\ query = [r \in Reqs |-> <<>>]
    /\ chat_session = [r \in Reqs |-> 0]
    /\ history = [r \in Reqs |-> <<>>]
    /\ result = [r \in Reqs |-> NoResult]
    /\ created = [r \in Reqs |-> FALSE]
    /\ remoteOk = [r \in Reqs |-> FALSE]
    /\ readVer = [r \in Reqs |-> 0]
    /\ saveVer = [r \in Reqs |-> 0]
    /\ queryRow = [r \in Reqs |-> 0]
    /\ writes = <<>>
    /\ succeeded = <<>>
    /\ nCalls = 0

FindInit ==
    /\ searches = <<>>
    /\ fpc = "idle"
    /\ finput = NoInput
    /\ product_database = <<>>
    /\ response_text = <<>>
    /\ similar_products_data = <<>>
    /\ hardware_id_result = <<>>
    /\ similar_products = <<>>

\* the latest read, when no read was made yet
NoLookup == [field |-> "", arg |-> <<>>, raised |-> FALSE, value |-> <<>>]

ReadInit ==
    /\ identifications = <<>>
    /\ lookup = NoLookup

Init ==
    /\ apiKey \in BOOLEAN
    /\ products = Catalog
    /\ ChatInit
    /\ FindInit
    /\ ReadInit

InFlight(r) == pc[r] \in {"resolved", "called", "saved"}

\* a request goes to the first worker that is not serving one; the workers are
\* interchangeable, so this leaves out no interleaving of calls
FirstFree(r) == ~InFlight(r) /\ \A other \in Reqs : other < r => InFlight(other)

\* perform_mutation, lines 170-193: read the input, build the client, then
\* resolve the session or create one
ChatBegin(r) ==
    /\ FirstFree(r)
    /\ nCalls < MaxCalls
    /\ \E sid \in ClientSessionIds, q \in Queries :
           /\ nCalls' = nCalls + 1
           /\ session_id' = [session_id EXCEPT ![r] = sid]
           /\ query' = [query EXCEPT ![r] = q]
           /\ result' = [result EXCEPT ![r] = NoResult]
           /\ remoteOk' = [remoteOk EXCEPT ![r] = FALSE]
           /\ saveVer' = [saveVer EXCEPT ![r] = 0]
           /\ queryRow' = [queryRow EXCEPT ![r] = 0]
           /\ UNCHANGED <<apiKey, queries, succeeded, findVars, readVars>>
           /\ IF GeminiClientRaises
              THEN \* client = GeminiClient() raises ValueError
                   /\ pc' = [pc EXCEPT ![r] = "raised"]
                   /\ chat_session' = [chat_session EXCEPT ![r] = 0]
                   /\ history' = [history EXCEPT ![r] = <<>>]
                   /\ created' = [created EXCEPT ![r] = FALSE]
                   /\ readVer' = [readVer EXCEPT ![r] = 0]
                   /\ UNCHANGED <<chats, nextUuid, writes>>
              ELSE IF Resolves(sid)
              THEN LET pk == CHOOSE k \in ChatsWithSessionId(sid) : TRUE IN
                   /\ pc' = [pc EXCEPT ![r] = "resolved"]
                   /\ chat_session' = [chat_session EXCEPT ![r] = pk]
                   /\ history' = [history EXCEPT ![r] = chats[pk].history]
                   /\ created' = [created EXCEPT ![r] = FALSE]
                   /\ readVer' = [readVer EXCEPT ![r] = writes[pk]]
                   /\ UNCHANGED <<chats, nextUuid, writes>>
              ELSE LET new == NewSessionId(sid) IN
                   /\ nextUuid' = nextUuid + 1
                   /\ history' = [history EXCEPT ![r] = <<>>]
                   /\ readVer' = [readVer EXCEPT ![r] = 0]
                   /\ IF UniqueViolation(new)
                      THEN \* IntegrityError
                           /\ pc' = [pc EXCEPT ![r] = "raised"]
                           /\ chat_session' = [chat_session EXCEPT ![r] = 0]
                           /\ created' = [created EXCEPT ![r] = FALSE]
                           /\ UNCHANGED <<chats, writes>>
                      ELSE /\ pc' = [pc EXCEPT ![r] = "resolved"]
                           /\ chats' = Append(chats, ChatRow(new))
                           /\ writes' = Append(writes, 0)
                           /\ chat_session' = [chat_session EXCEPT ![r] = Len(chats) + 1]
                           /\ created' = [created EXCEPT ![r] = TRUE]

\* perform_mutation, line 196: result = client.hardware_chat(query, history)
ChatRemote(r) ==
    /\ pc[r] = "resolved"
    /\ pc' = [pc EXCEPT ![r] = "called"]
    /\ \E remote \in RemoteOutcomes :
          /\ result' = [result EXCEPT ![r] = hardware_chat(query[r], history[r], remote)]
          /\ remoteOk' = [remoteOk EXCEPT ![r] = remote.ok]
    /\ UNCHANGED <<apiKey, chats, queries, nextUuid, session_id, query,
                   chat_session, history, created, readVer, saveVer, queryRow,
                   writes, succeeded, nCalls, findVars, readVars>>

\* a save() that leaves the history column out of the UPDATE
SavedRow_SkipsHistory(row, res) == row

\* the row chat_session.save() writes over the stored one
SavedRow(row, res) == [row EXCEPT !.history = res.history]

\* perform_mutation, lines 199-200: chat_session.history = result["history"];
\* chat_session.save()
ChatSave(r) ==
    /\ pc[r] = "called"
    /\ pc' = [pc EXCEPT ![r] = "saved"]
    /\ chats' = [chats EXCEPT ![chat_session[r]] = SavedRow(@, result[r])]
    /\ writes' = [writes EXCEPT ![chat_session[r]] = @ + 1]
    /\ saveVer' = [saveVer EXCEPT ![r] = writes[chat_session[r]] + 1]
    /\ UNCHANGED <<apiKey, queries, nextUuid, session_id, query, chat_session,
                   history, result, created, remoteOk, readVer, queryRow,
                   succeeded, nCalls, findVars, readVars>>

\* a create that is skipped when the answer is an error description
QueryRows_SkipsErrors(qs, chat, question, answer) ==
    IF answer # <<>> /\ Head(answer) = Head(ErrorPrefix)
    THEN qs
    ELSE Append(qs, [chat |-> chat, question |-> question, answer |-> answer])

\* HardwareQuery.objects.create(chat=..., question=..., answer=...)
QueryRows(qs, chat, question, answer) ==
    Append(qs, [chat |-> chat, question |-> question, answer |-> answer])

\* perform_mutation, lines 203-207: store the question and the answer, return
ChatStoreQuery(r) ==
    /\ pc[r] = "saved"
    /\ pc' = [pc EXCEPT ![r] = "done"]
    /\ queries' = QueryRows(queries, chat_session[r], query[r], result[r].response)
    /\ queryRow' = [queryRow EXCEPT ![r] = Len(queries')]
    /\ succeeded' = Append(succeeded, remoteOk[r])
    /\ UNCHANGED <<apiKey, chats, nextUuid, session_id, query, chat_session,
                   history, result, created, remoteOk, readVer, saveVer, writes,
                   nCalls, findVars, readVars>>

Next ==
    \E r \in Reqs :
        \/ ChatBegin(r)
        \/ ChatRemote(r)
        \/ ChatSave(r)
        \/ ChatStoreQuery(r)

Spec == Init /\ [][Next]_vars

\* each call runs to completion before the next starts
NoneInFlight == \A r \in Reqs : ~InFlight(r)

SeqNext ==
    \E r \in Reqs :
        \/ NoneInFlight /\ ChatBegin(r)
        \/ ChatRemote(r)
        \/ ChatSave(r)
        \/ ChatStoreQuery(r)

SpecSeq == Init /\ [][SeqNext]_vars

\* the server is restarted on other settings, with no call in flight:
\* GEMINI_API_KEY is set, or is removed.  The tables stay as they are.
Reconfigure ==
    /\ NoneInFlight
    /\ apiKey' = ~apiKey
    /\ UNCHANGED <<chatVars, findVars, readVars>>

CredNext ==
    \/ Next
    \/ Reconfigure

SpecCred == Init /\ [][CredNext]_vars

(* --------------------- findSimilarProducts, actions -------------------- *)

\* perform_mutation, lines 231-261: save the image, load the candidates, build
\* the client.  The call reads no ProductSimilaritySearch row, so one call on
\* the empty table stands for every call.
FindBegin ==
    /\ fpc = "idle"
    /\ \E input \in FindInputs :
          /\ finput' = input
          /\ product_database' =
                 ProductDatabase(ProductsQuery(products, input.category_id))
    /\ response_text' = <<>>
    /\ similar_products_data' = <<>>
    /\ hardware_id_result' = <<>>
    /\ similar_products' = <<>>
    /\ fpc' = IF GeminiClientRaises THEN "raised" ELSE "loaded"
    /\ UNCHANGED <<apiKey, chatVars, readVars, products, searches>>

\* perform_mutation, lines 264-269: identify the component, then ask for the
\* similar products
FindRemote ==
    /\ fpc = "loaded"
    /\ fpc' = "asked"
    /\ \E identified \in IdentifyResults, remote \in FindOutcomes :
          /\ hardware_id_result' = identified
          /\ response_text' = remote.text
          /\ similar_products_data' = find_similar_products(product_database, remote)
    /\ UNCHANGED <<apiKey, chatVars, readVars, products, searches, finput, product_database,
                   similar_products>>

\* perform_mutation, lines 272-289: truncate, store the search, fetch the
\* products, return
FindStore ==
    /\ fpc = "asked"
    /\ fpc' = "done"
    /\ LET data == Slice(similar_products_data, finput.max_results)
           product_ids == ProductIds(data)
       IN /\ similar_products_data' = data
          /\ searches' = Append(searches,
                 [identified_component |-> hardware_id_result,
                  similar_product_ids |-> product_ids])
          /\ similar_products' = ProductsWithIds(products, product_ids)
    /\ UNCHANGED <<apiKey, chatVars, readVars, products, finput, product_database,
                   response_text, hardware_id_result>>

FindNext ==
    \/ FindBegin
    \/ FindRemote
    \/ FindStore

\* the catalog may hand its rows over in any order
FindSpecInit ==
    /\ apiKey \in BOOLEAN
    /\ products \in CatalogOrders
    /\ ChatInit
    /\ FindInit
    /\ ReadInit

SpecFind == FindSpecInit /\ [][FindNext]_vars

(* ----------- identifyHardwareImage and the read operations ------------ *)

\* HardwareIdentification rows after which no further upload is taken
MaxIdentifications == 2
\* most rows that earlier calls left in the HardwareChat table, and in the
\* ProductSimilaritySearch table
MaxStored == 2

\* IdentifyHardwareImage.perform_mutation: save the upload, build the client,
\* ask the remote model, store the row.  default_storage.save returns a path
\* no other file has.
IdentifyHardwareImage ==
    /\ Len(identifications) < MaxIdentifications
    /\ IF GeminiClientRaises
       THEN UNCHANGED vars
       ELSE /\ \E res \in IdentifyResults :
                  identifications' = Append(identifications,
                      [image |-> Len(identifications) + 1, result |-> res])
            /\ lookup' = NoLookup
            /\ UNCHANGED <<apiKey, chatVars, findVars>>

\* ids a client may send as the ID argument: numbers of rows that may exist, a
\* number no row has, and a string that is not a number
ReadIds == {<<"1">>, <<"2">>, <<"9">>, <<"x">>}

\* session ids a client may send as the (non-null) String argument
ReadSessionIds == ClientSessionIds \ {NoneVal}

\* whether int(s) succeeds
IsNumber(s) == s # <<>> /\ \A i \in 1..Len(s) : s[i] \in Range(Digits)

\* Model.objects.all(): the model instances, each a row with its primary key;
\* the order Meta.ordering gives them is left out
Instances(rows) == {[id |-> pk, row |-> rows[pk]] : pk \in 1..Len(rows)}

\* QuerySet.first(): None, written <<>>, when nothing matches, else one
\* instance.  The filters below are on unique columns: at most one row matches.
First(matches) == IF matches = {} THEN <<>> ELSE <<CHOOSE x \in matches : TRUE>>

\* how a resolver ends: it returns a value or it raises
Returned(v) == [raised |-> FALSE, value |-> v]
Raised == [raised |-> TRUE, value |-> <<>>]

\* Model.objects.filter(pk=id).first(): the lookup converts id to the integer
\* type of the primary key, and raises ValueError when id is not a number
PkFirst(rows, id) ==
    IF IsNumber(id)
    THEN Returned(First({x \in Instances(rows) : x.id = ParseInt(id)}))
    ELSE Raised

resolve_hardware_identification(id) == PkFirst(identifications, id)

resolve_hardware_identifications == Returned(Instances(identifications))

resolve_hardware_chat(sid) ==
    Returned(First({x \in Instances(chats) : x.row.session_id = sid}))

resolve_hardware_chats == Returned(Instances(chats))

resolve_product_similarity_search(id) == PkFirst(searches, id)

resolve_product_similarity_searches == Returned(Instances(searches))

\* a query field is resolved: the resolver runs and its response goes out
Read(field, arg, response) ==
    /\ lookup' = [field |-> field, arg |-> arg,
                  raised |-> response.raised, value |-> response.value]
    /\ UNCHANGED <<apiKey, chatVars, findVars, identifications>>

HardwareIdentificationQuery ==
    \E id \in ReadIds :
        Read("hardware_identification", id, resolve_hardware_identification(id))

HardwareIdentificationsQuery ==
    Read("hardware_identifications", <<>>, resolve_hardware_identifications)

HardwareChatQuery ==
    \E sid \in ReadSessionIds :
        Read("hardware_chat", sid, resolve_hardware_chat(sid))

HardwareChatsQuery == Read("hardware_chats", <<>>, resolve_hardware_chats)

ProductSimilaritySearchQuery ==
    \E id \in ReadIds :
        Read("product_similarity_search", id, resolve_product_similarity_search(id))

ProductSimilaritySearchesQuery ==
    Read("product_similarity_searches", <<>>, resolve_product_similarity_searches)

ReadNext ==
    \/ IdentifyHardwareImage
    \/ HardwareIdentificationQuery
    \/ HardwareIdentificationsQuery
    \/ HardwareChatQuery
    \/ HardwareChatsQuery
    \/ ProductSimilaritySearchQuery
    \/ ProductSimilaritySearchesQuery

\* sequences over S of length at most n
SeqsUpTo(S, n) == UNION {[1..k -> S] : k \in 0..n}

\* earlier hardwareChatMessage calls, each sent without a session id and run
\* to its end: the query and how the remote call ended
PastChatCalls == [query : Queries, remote : RemoteOutcomes]

\* the HardwareChat rows those calls left: the k-th call drew the k-th uuid
StoredChats(calls) ==
    [pk \in 1..Len(calls) |->
        SavedRow(ChatRow(ToString(pk)),
                 hardware_chat(calls[pk].query, <<>>, calls[pk].remote))]

\* the HardwareQuery rows those calls left
StoredQueries(calls) ==
    [pk \in 1..Len(calls) |->
        Head(QueryRows(<<>>, pk, calls[pk].query,
             hardware_chat(calls[pk].query, <<>>, calls[pk].remote).response))]

\* earlier findSimilarProducts calls, run to their end: the input, the
\* identified component and how the remote call ended
PastFindCalls ==
    [input : {[category_id |-> NoneVal, max_results |-> <<DefaultMaxResults>>]},
     identified : IdentifyResults,
     remote : {[ok |-> TRUE, text |-> <<"2", ",", "1">>], [ok |-> FALSE, text |-> <<>>]}]

\* the ProductSimilaritySearch rows those calls left
StoredSearches(calls) ==
    [pk \in 1..Len(calls) |->
        [identified_component |-> calls[pk].identified,
         similar_product_ids |->
             ProductIds(Slice(
                 find_similar_products(
                     ProductDatabase(ProductsQuery(Catalog, calls[pk].input.category_id)),
                     calls[pk].remote),
                 calls[pk].input.max_results))]]

\* a server that starts on the tables earlier chat and search calls filled;
\* the history variables of hardwareChatMessage say what those calls did
ReadSpecInit ==
    /\ apiKey \in BOOLEAN
    /\ products = Catalog
    /\ \E calls \in SeqsUpTo(PastChatCalls, MaxStored) :
          /\ chats = StoredChats(calls)
          /\ queries = StoredQueries(calls)
          /\ writes = [pk \in 1..Len(calls) |-> 1]
          /\ succeeded = [pk \in 1..Len(calls) |-> calls[pk].remote.ok]
          /\ nextUuid = Len(calls) + 1
          /\ nCalls = Len(calls)
    /\ pc = [r \in Reqs |-> "idle"]
    /\ session_id = [r \in Reqs |-> NoneVal]
    /\ query = [r \in Reqs |-> <<>>]
    /\ chat_session = [r \in Reqs |-> 0]
    /\ history = [r \in Reqs |-> <<>>]
    /\ result = [r \in Reqs |-> NoResult]
    /\ created = [r \in Reqs |-> FALSE]
    /\ remoteOk = [r \in Reqs |-> FALSE]
    /\ readVer = [r \in Reqs |-> 0]
    /\ saveVer = [r \in Reqs |-> 0]
    /\ queryRow = [r \in Reqs |-> 0]
    /\ \E calls \in SeqsUpTo(PastFindCalls, MaxStored) :
          searches = StoredSearches(calls)
    /\ fpc = "idle"
    /\ finput = NoInput
    /\ product_database = <<>>
    /\ response_text = <<>>
    /\ similar_products_data = <<>>
    /\ hardware_id_result = <<>>
    /\ similar_products = <<>>
    /\ ReadInit

SpecRead == ReadSpecInit /\ [][ReadNext]_vars

(* ------------------ properties of findSimilarProducts ------------------ *)

\* the row the current call stored
LastSearch == searches[Len(searches)]

\* C5, as stated, for the integer values of maxResults: a completed call stores
\* and returns no more than maxResults products.  A count is never negative,
\* so for a negative maxResults the claim is read as allowing no product at
\* all, which is the least it asks.
C5_AtMostMaxResults ==
    (fpc = "done" /\ finput.max_results # <<>>) =>
        /\ Len(LastSearch.similar_product_ids) <= Max(finput.max_results[1], 0)
        /\ Len(similar_products) <= Max(finput.max_results[1], 0)

\* the candidate set of a call: all products, or those of the requested category
CandidateRows(category_id) ==
    {p \in Range(products) : Truthy(category_id) => p.category_id = category_id}

CandidateIds(category_id) == {Str(p.id) : p \in CandidateRows(category_id)}

\* C6: whatever the remote answers, every candidate find_similar_products
\* returns, every id stored in the search record and every product returned
\* belongs to the candidate set loaded for the call.
C6_ResultsAreCandidates ==
    /\ fpc \in {"asked", "done"} =>
          \A i \in 1..Len(similar_products_data) :
              similar_products_data[i].id \in CandidateIds(finput.category_id)
    /\ fpc = "done" =>
          /\ Range(LastSearch.similar_product_ids) \subseteq
                 CandidateIds(finput.category_id)
          /\ Range(similar_products) \subseteq CandidateRows(finput.category_id)

\* a call limited to one category completed and returned a product, although the
\* remote also named an id no product has and the id of a product of another
\* category
C6_Witness ==
    /\ fpc = "done"
    /\ finput.category_id = "c1"
    /\ similar_products # <<>>
    /\ \E a, b \in Range(ParsedIds(response_text)) :
          /\ a \notin {Str(p.id) : p \in Range(products)}
          /\ b \in {Str(p.id) : p \in Range(products)} \ CandidateIds("c1")

\* place of the first segment of the remote's answer that names id
FirstNamedAt(id) ==
    CHOOSE k \in 1..Len(ParsedIds(response_text)) :
        /\ ParsedIds(response_text)[k] = id
        /\ \A j \in 1..(k - 1) : ParsedIds(response_text)[j] # id

\* ids, each named in the remote's answer, stand in the order the answer names them
InResponseOrder(ids) ==
    \A i, j \in 1..Len(ids) : i < j => FirstNamedAt(ids[i]) < FirstNamedAt(ids[j])

\* C7, as stated: the candidates find_similar_products returns, and the ids
\* stored in the search record, stand in the order in which the remote's answer
\* names them.
C7_ResponseOrder ==
    /\ fpc \in {"asked", "done"} => InResponseOrder(ProductIds(similar_products_data))
    /\ fpc = "done" => InResponseOrder(LastSearch.similar_product_ids)

(* ------------------------ properties of the chat ----------------------- *)

IsPrefix(a, b) == Len(a) <= Len(b) /\ SubSeq(b, 1, Len(a)) = a

\* the turns one call appends when its remote call succeeds
CallTurns(r) == <<UserTurn(query[r]), ModelTurn(result[r].response)>>

\* primary keys of the HardwareQuery rows of chat pk: one per completed call
CallsOn(pk) == {n \in 1..Len(queries) : queries[n].chat = pk}

\* the turns of the first n completed calls, in call order, that belong to chat
\* pk and whose remote call succeeded
RECURSIVE TurnsOf(_, _)
TurnsOf(pk, n) ==
    IF n = 0
    THEN <<>>
    ELSE TurnsOf(pk, n - 1) \o
         (IF queries[n].chat = pk /\ succeeded[n]
          THEN <<UserTurn(queries[n].question), ModelTurn(queries[n].answer)>>
          ELSE <<>>)

\* C1, as stated: when calls run one after another, a session that later calls
\* resolved, and on which N calls have completed in all (the one that created
\* it and those that resolved it), holds a history of exactly 2 x N turns.
C1_LengthTwicePerCall ==
    NoneInFlight =>
        \A pk \in 1..Len(chats) :
            Cardinality(CallsOn(pk)) >= 2 =>
                Len(chats[pk].history) = 2 * Cardinality(CallsOn(pk))

\* C1, amended: when calls run one after another, a session's history is, in
\* call order, one user turn followed by one model turn for each completed call
\* on it whose remote call succeeded, so its length is twice the number of
\* those calls; a call whose remote call failed adds no turn.
C1_HistoryIsSuccessfulTurns ==
    NoneInFlight =>
        \A pk \in 1..Len(chats) :
            /\ chats[pk].history = TurnsOf(pk, Len(queries))
            /\ Len(chats[pk].history) =
                   2 * Cardinality({n \in CallsOn(pk) : succeeded[n]})

\* three calls completed on one session, one of them failed, four turns stored
C1_Witness ==
    /\ NoneInFlight
    /\ \E pk \in 1..Len(chats) :
          /\ Cardinality(CallsOn(pk)) = 3
          /\ Cardinality({n \in CallsOn(pk) : succeeded[n]}) = 2
          /\ Len(chats[pk].history) = 4

\* two completed calls on one existing session that both read its history before
\* either saved; first saved first, last saved last, and nothing was saved since
Interleaved(first, last) ==
    /\ first # last
    /\ pc[first] = "done" /\ pc[last] = "done"
    /\ chat_session[first] = chat_session[last]
    /\ ~created[first] /\ ~created[last]
    /\ readVer[first] = readVer[last]
    /\ saveVer[first] = readVer[first] + 1
    /\ saveVer[last] = readVer[first] + 2
    /\ writes[chat_session[last]] = saveVer[last]

\* the call returned a response and its HardwareQuery row is stored
Answered(r) ==
    /\ pc[r] = "done"
    /\ queryRow[r] \in 1..Len(queries)
    /\ queries[queryRow[r]].chat = chat_session[r]
    /\ queries[queryRow[r]].question = query[r]
    /\ queries[queryRow[r]].answer = result[r].response

\* C2, as stated: after two interleaved calls on an existing session the stored
\* history holds the turns appended by exactly one of the two calls, and both
\* calls returned a response and stored a query record.
C2_TurnsOfExactlyOne ==
    \A first, last \in Reqs :
        Interleaved(first, last) =>
            /\ chats[chat_session[last]].history \in
                   {history[first] \o CallTurns(first), history[last] \o CallTurns(last)}
            /\ Answered(first) /\ Answered(last)

\* C2, amended: after two interleaved calls on an existing session the stored
\* history is the one returned to the call that saved last: the history both
\* calls read, followed by that call's two turns if its remote call succeeded
\* and by nothing if it failed.  The turns of the call that saved first are
\* not in it, although both calls returned a response and stored a query
\* record.
C2_LastSaverWins ==
    \A first, last \in Reqs :
        Interleaved(first, last) =>
            /\ history[first] = history[last]
            /\ chats[chat_session[last]].history =
                   history[last] \o (IF remoteOk[last] THEN CallTurns(last) ELSE <<>>)
            /\ Len(chats[chat_session[last]].history) <= Len(history[first]) + 2
            /\ Answered(first) /\ Answered(last)

\* two interleaved calls with different queries, both answered by the remote
C2_Witness ==
    \E first, last \in Reqs :
        /\ Interleaved(first, last)
        /\ remoteOk[first] /\ remoteOk[last]
        /\ query[first] # query[last]
        /\ history[first] # <<>>

\* worker r takes a step
Moves(r) == pc'[r] # pc[r]

\* worker r starts a call: lines 170-193
Begins(r) == ~InFlight(r) /\ nCalls' = nCalls + 1 /\ Moves(r)

\* C3: a call whose supplied session id resolves to no session gets a newly
\* created session whose id differs from the supplied one, starts from an empty
\* history, and no step of the call changes a session that existed before it.
C3_UnresolvedIdDiscarded ==
    [][\A r \in Reqs :
          /\ (Begins(r) /\ apiKey /\ Truthy(session_id'[r])
                  /\ ChatsWithSessionId(session_id'[r]) = {}) =>
                 /\ pc'[r] = "resolved"
                 /\ Len(chats') = Len(chats) + 1
                 /\ chat_session'[r] = Len(chats')
                 /\ chats'[chat_session'[r]].session_id # session_id'[r]
                 /\ chats'[chat_session'[r]].session_id \notin
                        {chats[pk].session_id : pk \in 1..Len(chats)}
                 /\ chats'[chat_session'[r]].history = <<>>
                 /\ history'[r] = <<>>
                 /\ \A pk \in 1..Len(chats) : chats'[pk] = chats[pk]
          /\ (Moves(r) /\ created'[r]) =>
                 \A pk \in 1..Len(chats) :
                     pk # chat_session'[r] => chats'[pk] = chats[pk]
      ]_vars

\* a call that supplied an id no session has, completed, next to an older session
C3_Witness ==
    \E r \in Reqs :
        /\ pc[r] = "done"
        /\ session_id[r] = "bogus"
        /\ created[r]
        /\ chat_session[r] >= 2

\* no two HardwareChat rows share a session id
NoSharedSessionId ==
    \A a, b \in 1..Len(chats) : chats[a].session_id = chats[b].session_id => a = b

\* C4: a call with no session id (absent or empty) creates a session whose
\* generated id is the id of no session that existed, and no two stored
\* sessions ever share a session id.
C4_FreshUniqueSessionId ==
    [][/\ NoSharedSessionId'
       /\ \A r \in Reqs :
             (Begins(r) /\ apiKey /\ ~Truthy(session_id'[r])) =>
                 /\ pc'[r] = "resolved"
                 /\ Len(chats') = Len(chats) + 1
                 /\ chat_session'[r] = Len(chats')
                 /\ chats'[chat_session'[r]].session_id \notin
                        {chats[pk].session_id : pk \in 1..Len(chats)}
                 /\ \A pk \in 1..Len(chats) : chats'[pk] = chats[pk]
      ]_vars

\* a call with an empty session id completed after other sessions were created
C4_Witness ==
    \E r \in Reqs :
        /\ pc[r] = "done"
        /\ session_id[r] = ""
        /\ created[r]
        /\ chat_session[r] = 3

\* C8: when the remote call fails, hardware_chat returns an error description
\* as the response and the history it was given; the save then stores the
\* history the call read at its start (empty for a session it created), which
\* leaves the row as it was when no other call saved in between; and the call
\* goes on to return, with the error description as its answer.
C8_FailureKeepsHistory ==
    [][\A r \in Reqs :
          /\ (pc[r] = "resolved" /\ Moves(r) /\ ~remoteOk'[r]) =>
                 /\ pc'[r] = "called"
                 /\ result'[r].history = history[r]
                 /\ IsPrefix(ErrorPrefix, result'[r].response)
                 /\ Len(result'[r].response) > Len(ErrorPrefix)
          /\ (pc[r] = "called" /\ Moves(r) /\ ~remoteOk[r]) =>
                 /\ pc'[r] = "saved"
                 /\ chats'[chat_session[r]].history = history[r]
                 /\ created[r] => chats'[chat_session[r]].history = <<>>
                 /\ writes[chat_session[r]] = readVer[r] => chats' = chats
          /\ (pc[r] = "saved" /\ Moves(r) /\ ~remoteOk[r]) =>
                 /\ pc'[r] = "done"
                 /\ Answered(r)'
                 /\ IsPrefix(ErrorPrefix, queries'[queryRow'[r]].answer)
      ]_vars

\* a call on an existing session with turns failed remotely and returned, and
\* the stored history is the one it read
C8_Witness ==
    \E r \in Reqs :
        /\ pc[r] = "done"
        /\ ~remoteOk[r]
        /\ ~created[r]
        /\ history[r] # <<>>
        /\ chats[chat_session[r]].history = history[r]

\* C9, as stated: every write to a session's stored history yields a value of
\* which the history stored before is a prefix, also when calls interleave.
C9_AppendOnly ==
    [][\A pk \in 1..Len(chats) :
          IsPrefix(chats[pk].history, chats'[pk].history)]_vars

\* C10: every completed call stores exactly one HardwareQuery, attached to the
\* session it returns, with the supplied query as question and the returned
\* response as answer, whether or not the remote call succeeded; a call creates
\* exactly one session when its session id is absent or unresolved and none
\* when it resolves; no other step adds a row of either kind.
C10_OneQueryOneSession ==
    [][/\ \A r \in Reqs : pc'[r] = "done" => Answered(r)'
       /\ \A r \in Reqs :
             Moves(r) =>
                 /\ Len(queries') = Len(queries) + (IF pc'[r] = "done" THEN 1 ELSE 0)
                 /\ SubSeq(queries', 1, Len(queries)) = queries
                 /\ Len(chats') = Len(chats) +
                        (IF Begins(r) /\ apiKey /\ ~Resolves(session_id'[r]) THEN 1 ELSE 0)
                 /\ (pc[r] = "saved") => pc'[r] = "done"
      ]_vars

\* a creating call whose remote call failed and a resolving call whose remote
\* call succeeded have both completed
C10_Witness ==
    \E a, b \in Reqs :
        /\ pc[a] = "done" /\ created[a] /\ ~remoteOk[a]
        /\ pc[b] = "done" /\ ~created[b] /\ remoteOk[b]
        /\ queryRow[a] # queryRow[b]


(* ----------------- hardwareChatMessage, no credential ----------------- *)

\* worker r takes a new call
Starts(r) == FirstFree(r) /\ nCalls' = nCalls + 1

\* C12: a hardwareChatMessage call that starts while the credential is missing
\* fails at once, whatever session id it sent (none, one that resolves, one
\* that does not): the step creates no session and no query record and saves
\* no session, and the failed call takes no later step.
C12_NoCredentialNoWrite ==
    [][\A r \in Reqs :
          /\ (Starts(r) /\ ~apiKey) =>
                 /\ pc'[r] = "raised"
                 /\ chats' = chats
                 /\ queries' = queries
                 /\ writes' = writes
          /\ (pc[r] = "raised" /\ Moves(r)) => Starts(r)]_vars

\* a call sent with the id of a session that holds turns failed for want of
\* the credential
C12_Witness ==
    \E r \in Reqs :
        /\ pc[r] = "raised"
        /\ ~apiKey
        /\ \E pk \in ChatsWithSessionId(session_id[r]) : chats[pk].history # <<>>

(* ------------------- properties of the read operations ------------------ *)

RecordStore == <<identifications, chats, queries, searches>>

\* the step answers a read
Reads == lookup'.field # ""

\* a read leaves every record as it was
ReadsChangeNothing == Reads => RecordStore' = RecordStore

\* a read by id that repeats the latest read, with no mutation since, gets
\* the same answer
RepeatedReadsAgree ==
    (Reads /\ lookup.field = lookup'.field /\ lookup.arg = lookup'.arg) =>
        lookup' = lookup

\* the rows that have the id, or the session id, the latest read asked for
NamedRows ==
    CASE lookup.field = "hardware_identification" ->
             {pk \in 1..Len(identifications) : Str(pk) = lookup.arg}
      [] lookup.field = "product_similarity_search" ->
             {pk \in 1..Len(searches) : Str(pk) = lookup.arg}
      [] lookup.field = "hardware_chat" ->
             {pk \in 1..Len(chats) : chats[pk].session_id = lookup.arg}
      [] OTHER -> {}

ByIdFields == {"hardware_identification", "product_similarity_search", "hardware_chat"}

\* a read by an id no row has returned None and did not raise
MissingIsAbsent ==
    (lookup.field \in ByIdFields /\ NamedRows = {}) =>
        (~lookup.raised /\ lookup.value = <<>>)

\* a read by an id some row has returned that row
FoundIsReturned ==
    (lookup.field \in ByIdFields /\ NamedRows # {}) =>
        /\ ~lookup.raised
        /\ Len(lookup.value) = 1
        /\ lookup.value[1].id \in NamedRows

\* C11: each of the six reads leaves every record of the Record Store
\* unchanged, a read by id repeated with no mutation in between returns the
\* same field values, and a read by an id or a session id that no record has
\* returns None and raises no error.
C11_ReadsAreSafe ==
    [][ReadsChangeNothing /\ RepeatedReadsAgree /\ MissingIsAbsent']_vars

====
